---- MODULE Spec2Model ----
(***************************************************************************)
(* Value marshalling of tfx/orchestration/data_types_utils.py: plain       *)
(* Python values, metadata_store_pb2.Value and pipeline_pb2.Value.         *)
(***************************************************************************)
EXTENDS Integers, Sequences, FiniteSets, TLC

VARIABLES metadata_value, parameter_value, call, ret

vars == <<metadata_value, parameter_value, call, ret>>

\* Largest integer (and largest double, counted in halves) the inputs use.
MaxNum == 2
\* Longest list the List Codec is given.
MaxLen == 2

---------------------------------------------------------------------------
(* Python values.  Every value is a record tagged with its runtime type.   *)

PyInt(n) == [kind |-> "int", i |-> n]
PyBool(b) == [kind |-> "bool", b |-> b]
\* a float h stands for the double h/2
PyFloat(h) == [kind |-> "float", f |-> h]
\* a str is the sequence of its characters
PyStr(s) == [kind |-> "str", s |-> s]
PyNone == [kind |-> "NoneType"]
PyList(items) == [kind |-> "list", items |-> items]
PyDict(d) == [kind |-> "dict", d |-> d]
PyMessage(type, payload) == [kind |-> "message", type |-> type, payload |-> payload]
\* a pipeline_pb2.Value passed as a Python object
PyPipelineValue(m) == [kind |-> "pipeline_pb2.Value", m |-> m]
\* a metadata_store_pb2.Value returned as a Python object
PyMetadataValue(m) == [kind |-> "metadata_store_pb2.Value", m |-> m]

\* a metadata_store_pb2.PropertyType
PropertyType(name) == [kind |-> "PropertyType", name |-> name]

Return(v) == [kind |-> "return", value |-> v]
Raise(exc, msg) == [kind |-> "raise", exc |-> exc, msg |-> msg]

\* isinstance(value, int): bool is a subclass of int
IsInstanceInt(value) == value.kind \in {"int", "bool"}
IsInstanceBool(value) == value.kind = "bool"
IsInstanceFloat(value) == value.kind = "float"
IsInstanceStr(value) == value.kind = "str"
IsInstancePipelineValue(value) == value.kind = "pipeline_pb2.Value"

\* the integer an int (or a bool, as an int) stands for
IntOf(value) == IF value.kind = "bool" THEN (IF value.b THEN 1 ELSE 0) ELSE value.i

---------------------------------------------------------------------------
(* metadata_store_pb2.Value: the oneof 'value' over int_value,             *)
(* double_value and string_value.  A slot is <<>> when it is not set and   *)
(* <<x>> when it holds x; assigning a member of the oneof clears the       *)
(* others.                                                                 *)

NewMetadataValue == [int_value |-> <<>>, double_value |-> <<>>, string_value |-> <<>>]

WhichOneofValue(m) ==
  IF m.int_value # <<>> THEN "int_value"
  ELSE IF m.double_value # <<>> THEN "double_value"
  ELSE IF m.string_value # <<>> THEN "string_value"
  ELSE "None"

HasFieldStringValue(m) == m.string_value # <<>>

SetIntValue(m, n) == [int_value |-> <<n>>, double_value |-> <<>>, string_value |-> <<>>]
SetDoubleValue(m, h) == [int_value |-> <<>>, double_value |-> <<h>>, string_value |-> <<>>]
SetStringValue(m, s) == [int_value |-> <<>>, double_value |-> <<>>, string_value |-> <<s>>]

\* getattr(m, which): the Python value of the slot; getattr(m, None) is a TypeError
GetAttr(m, which) ==
  CASE which = "int_value" -> Return(PyInt(m.int_value[1]))
    [] which = "double_value" -> Return(PyFloat(m.double_value[1]))
    [] which = "string_value" -> Return(PyStr(m.string_value[1]))
    [] OTHER -> Raise("TypeError", "attribute name must be string")

\* how many slots of the oneof are populated
PopulatedSlots(m) ==
  (IF m.int_value # <<>> THEN 1 ELSE 0) + (IF m.double_value # <<>> THEN 1 ELSE 0)
    + (IF m.string_value # <<>> THEN 1 ELSE 0)

---------------------------------------------------------------------------
(* pipeline_pb2.Value: the oneof 'value' over field_value and              *)
(* runtime_parameter, and the schema.                                      *)

NewValueType == [proto_metadata |-> <<>>, boolean_type |-> FALSE]
NewSchema == [container_type |-> "NONE", value_type |-> NewValueType]
NewParameterValue == [field_value |-> <<>>, runtime_parameter |-> <<>>, schema |-> NewSchema]

WhichOneofParameter(p) ==
  IF p.field_value # <<>> THEN "field_value"
  ELSE IF p.runtime_parameter # <<>> THEN "runtime_parameter"
  ELSE "None"

\* parameter_value.field_value, as read: the default message when it is not set
FieldValueOf(p) == IF p.field_value # <<>> THEN p.field_value[1] ELSE NewMetadataValue

\* parameter_value.field_value.<slot> = x selects field_value in the oneof
WithFieldValue(p, m) == [p EXCEPT !.field_value = <<m>>, !.runtime_parameter = <<>>]

---------------------------------------------------------------------------
(* json_utils (the List Codec) and proto_utils (the Structured-Message     *)
(* Codec): collaborators of data_types_utils.                              *)

TrueText == <<"t", "r", "u", "e">>
FalseText == <<"f", "a", "l", "s", "e">>
Quote == "\""

\* the text from position i on starts with lit
StartsWith(s, i, lit) == i + Len(lit) - 1 <= Len(s) /\ SubSeq(s, i, i + Len(lit) - 1) = lit

RECURSIVE SkipSpace(_, _)
SkipSpace(s, i) == IF i <= Len(s) /\ s[i] = " " THEN SkipSpace(s, i + 1) ELSE i

\* the position of the next quote at or after i, Len(s) + 1 when there is none
RECURSIVE FindQuote(_, _)
FindQuote(s, i) == IF i > Len(s) \/ s[i] = Quote THEN i ELSE FindQuote(s, i + 1)

JsonFail == [ok |-> FALSE]
JsonOk(v, next) == [ok |-> TRUE, val |-> v, next |-> next]

\* the JSON value that starts at position i: true, false, "...", [v, ...]
RECURSIVE JsonValue(_, _)
RECURSIVE JsonElements(_, _, _)
JsonValue(s, i0) ==
  LET i == SkipSpace(s, i0) IN
  IF StartsWith(s, i, TrueText) THEN JsonOk(PyBool(TRUE), i + 4)
  ELSE IF StartsWith(s, i, FalseText) THEN JsonOk(PyBool(FALSE), i + 5)
  ELSE IF i <= Len(s) /\ s[i] = Quote THEN
    LET j == FindQuote(s, i + 1) IN
    IF j > Len(s) THEN JsonFail ELSE JsonOk(PyStr(SubSeq(s, i + 1, j - 1)), j + 1)
  ELSE IF i <= Len(s) /\ s[i] = "[" THEN
    LET j == SkipSpace(s, i + 1) IN
    IF j <= Len(s) /\ s[j] = "]" THEN JsonOk(PyList(<<>>), j + 1)
    ELSE JsonElements(s, j, <<>>)
  ELSE JsonFail

\* the elements of a list from position i on, after those of acc
JsonElements(s, i, acc) ==
  LET e == JsonValue(s, i) IN
  IF ~e.ok THEN JsonFail
  ELSE LET j == SkipSpace(s, e.next) IN
       IF j <= Len(s) /\ s[j] = "]" THEN JsonOk(PyList(Append(acc, e.val)), j + 1)
       ELSE IF j <= Len(s) /\ s[j] = "," THEN JsonElements(s, j + 1, Append(acc, e.val))
       ELSE JsonFail

\* json_utils.loads(s): s must be a str holding exactly one JSON value
json_loads(value) ==
  IF ~IsInstanceStr(value)
  THEN Raise("TypeError", "the JSON object must be str, bytes or bytearray")
  ELSE LET r == JsonValue(value.s, 1) IN
       IF r.ok /\ SkipSpace(value.s, r.next) = Len(value.s) + 1
       THEN Return(r.val)
       ELSE Raise("JSONDecodeError", "not a JSON document")

\* json_utils.dumps(obj) for booleans, strings and lists of them
RECURSIVE JsonText(_)
RECURSIVE JsonJoin(_, _)
JsonText(v) ==
  CASE v.kind = "bool" -> IF v.b THEN TrueText ELSE FalseText
    [] v.kind = "str" -> <<Quote>> \o v.s \o <<Quote>>
    [] v.kind = "list" -> <<"[">> \o JsonJoin(v.items, 1) \o <<"]">>

JsonJoin(items, i) ==
  IF i > Len(items) THEN <<>>
  ELSE JsonText(items[i]) \o (IF i < Len(items) THEN <<",", " ">> ELSE <<>>) \o JsonJoin(items, i + 1)

json_dumps(v) == PyStr(JsonText(v))

\* proto_utils.deserialize_proto_message(value, message_type, file_descriptors)
deserialize_proto_message(value, proto_metadata) ==
  IF ~IsInstanceStr(value)
  THEN Raise("TypeError", "cannot parse a non-string payload")
  ELSE Return(PyMessage(proto_metadata.message_type, value.s))

---------------------------------------------------------------------------
(* The translators of data_types_utils.py.  A translator that mutates its  *)
(* target yields [out |-> the target afterwards, ret |-> what it returns   *)
(* or raises].                                                             *)

get_metadata_value(value) ==
  LET which == WhichOneofValue(value) IN
  IF which = "None" THEN Return(PyNone) ELSE GetAttr(value, which)

\* set_metadata_value without its str branch: a str falls through to the raise
set_metadata_value_no_str(mv, value) ==
  IF IsInstanceInt(value) /\ ~IsInstanceBool(value)
  THEN LET m == SetIntValue(mv, IntOf(value)) IN [out |-> m, ret |-> Return(PyMetadataValue(m))]
  ELSE IF IsInstanceFloat(value)
  THEN LET m == SetDoubleValue(mv, value.f) IN [out |-> m, ret |-> Return(PyMetadataValue(m))]
  ELSE IF IsInstancePipelineValue(value) /\ WhichOneofParameter(value.m) = "field_value"
  THEN LET m == FieldValueOf(value.m) IN [out |-> m, ret |-> Return(PyMetadataValue(m))]
  ELSE [out |-> mv, ret |-> Raise("ValueError", "Unexpected type")]

\* set_metadata_value without the bool guard of its int branch
set_metadata_value_no_bool_guard(mv, value) ==
  IF IsInstanceInt(value)
  THEN LET m == SetIntValue(mv, IntOf(value)) IN [out |-> m, ret |-> Return(PyMetadataValue(m))]
  ELSE IF IsInstanceFloat(value)
  THEN LET m == SetDoubleValue(mv, value.f) IN [out |-> m, ret |-> Return(PyMetadataValue(m))]
  ELSE IF IsInstanceStr(value)
  THEN LET m == SetStringValue(mv, value.s) IN [out |-> m, ret |-> Return(PyMetadataValue(m))]
  ELSE IF IsInstancePipelineValue(value) /\ WhichOneofParameter(value.m) = "field_value"
  THEN LET m == FieldValueOf(value.m) IN [out |-> m, ret |-> Return(PyMetadataValue(m))]
  ELSE [out |-> mv, ret |-> Raise("ValueError", "Unexpected type")]

set_metadata_value(mv, value) ==
  IF IsInstanceInt(value) /\ ~IsInstanceBool(value)
  THEN LET m == SetIntValue(mv, IntOf(value)) IN [out |-> m, ret |-> Return(PyMetadataValue(m))]
  ELSE IF IsInstanceFloat(value)
  THEN LET m == SetDoubleValue(mv, value.f) IN [out |-> m, ret |-> Return(PyMetadataValue(m))]
  ELSE IF IsInstanceStr(value)
  THEN LET m == SetStringValue(mv, value.s) IN [out |-> m, ret |-> Return(PyMetadataValue(m))]
  ELSE IF IsInstancePipelineValue(value)
  THEN IF WhichOneofParameter(value.m) # "field_value"
       THEN [out |-> mv, ret |-> Raise("ValueError", "Expecting field_value")]
       ELSE LET m == FieldValueOf(value.m) IN [out |-> m, ret |-> Return(PyMetadataValue(m))]
  ELSE [out |-> mv, ret |-> Raise("ValueError", "Unexpected type")]

\* get_value without the check that field_value is the populated member
get_value_no_guard(tfx_value) ==
  GetAttr(FieldValueOf(tfx_value), WhichOneofValue(FieldValueOf(tfx_value)))

get_value(tfx_value) ==
  IF WhichOneofParameter(tfx_value) # "field_value"
  THEN Raise("RuntimeError", "Expecting field_value")
  ELSE GetAttr(FieldValueOf(tfx_value), WhichOneofValue(FieldValueOf(tfx_value)))

get_metadata_value_type(value) ==
  IF IsInstanceInt(value) THEN Return(PropertyType("INT"))
  ELSE IF IsInstanceFloat(value) THEN Return(PropertyType("DOUBLE"))
  ELSE IF IsInstanceStr(value) THEN Return(PropertyType("STRING"))
  ELSE IF IsInstancePipelineValue(value)
  THEN IF WhichOneofParameter(value.m) # "field_value"
       THEN Raise("RuntimeError", "Expecting field_value")
       ELSE LET value_type == WhichOneofValue(FieldValueOf(value.m)) IN
            CASE value_type = "int_value" -> Return(PropertyType("INT"))
              [] value_type = "double_value" -> Return(PropertyType("DOUBLE"))
              [] value_type = "string_value" -> Return(PropertyType("STRING"))
              [] OTHER -> Raise("ValueError", "Unexpected value type")
  ELSE Raise("ValueError", "Unexpected value type")

---------------------------------------------------------------------------
(* Declared property types: None, a class, or a typing generic alias.      *)

NoType == [meta |-> "NoneType"]
\* a class; message tells whether it is a subclass of message.Message
ClassType(name, message) == [meta |-> "type", name |-> name, message |-> message]
\* typing.List[arg] (origin list) or typing.Dict[..., arg] (origin dict)
GenericAlias(origin, arg) == [meta |-> "_GenericAlias", origin |-> origin, arg |-> arg]

BoolType == ClassType("bool", FALSE)
IsSubclassOfMessage(t) == t.meta = "type" /\ t.message

\* set_value_type(value_type, schema), nested in set_parameter_value:
\* issubclass() of something that is not a class is a TypeError
set_value_type(value_type, schema) ==
  IF value_type.meta # "type"
  THEN [schema |-> schema, ret |-> Raise("TypeError", "issubclass() arg 1 must be a class")]
  ELSE IF IsSubclassOfMessage(value_type)
  THEN [schema |-> [schema EXCEPT !.value_type.proto_metadata =
                      <<[message_type |-> value_type.name, file_descriptors |-> value_type.name]>>],
        ret |-> Return(PyNone)]
  ELSE IF value_type = BoolType
  THEN [schema |-> [schema EXCEPT !.value_type.boolean_type = TRUE], ret |-> Return(PyNone)]
  ELSE [schema |-> schema, ret |-> Return(PyNone)]

\* SetSchema that accepts a declared type it has no rule for instead of raising
SetSchema_accept_any(pv, property_type) ==
  IF property_type.meta = "NoneType"
  THEN [out |-> pv, ret |-> Return(PyNone)]
  ELSE IF property_type.meta = "_GenericAlias"
  THEN IF property_type.origin = "list"
       THEN LET s == set_value_type(property_type.arg, [pv.schema EXCEPT !.container_type = "LIST"]) IN
            [out |-> [pv EXCEPT !.schema = s.schema], ret |-> s.ret]
       ELSE [out |-> pv, ret |-> Return(PyNone)]
  ELSE LET s == set_value_type(property_type, pv.schema) IN
       [out |-> [pv EXCEPT !.schema = s.schema], ret |-> s.ret]

\* the schema part of set_parameter_value, run after string_value is assigned
SetSchema(pv, property_type) ==
  IF property_type.meta = "NoneType"
  THEN [out |-> pv, ret |-> Return(PyNone)]
  ELSE IF property_type.meta = "_GenericAlias"
  THEN IF property_type.origin = "list"
       THEN LET s == set_value_type(property_type.arg, [pv.schema EXCEPT !.container_type = "LIST"]) IN
            [out |-> [pv EXCEPT !.schema = s.schema], ret |-> s.ret]
       ELSE [out |-> pv, ret |-> Raise("ValueError", "Serialized string has unexpected type")]
  ELSE IF property_type = BoolType \/ IsSubclassOfMessage(property_type)
  THEN LET s == set_value_type(property_type, pv.schema) IN
       [out |-> [pv EXCEPT !.schema = s.schema], ret |-> s.ret]
  ELSE [out |-> pv, ret |-> Raise("ValueError", "Serialized string has unexpected type")]

set_parameter_value(pv, value, property_type) ==
  IF IsInstanceInt(value) /\ ~IsInstanceBool(value)
  THEN LET p == WithFieldValue(pv, SetIntValue(FieldValueOf(pv), IntOf(value))) IN
       [out |-> p, ret |-> Return(PyPipelineValue(p))]
  ELSE IF IsInstanceFloat(value)
  THEN LET p == WithFieldValue(pv, SetDoubleValue(FieldValueOf(pv), value.f)) IN
       [out |-> p, ret |-> Return(PyPipelineValue(p))]
  ELSE IF IsInstanceStr(value)
  THEN LET p == WithFieldValue(pv, SetStringValue(FieldValueOf(pv), value.s))
           s == SetSchema(p, property_type) IN
       [out |-> s.out,
        ret |-> IF s.ret.kind = "raise" THEN s.ret ELSE Return(PyPipelineValue(s.out))]
  ELSE [out |-> pv, ret |-> Raise("ValueError", "Unexpected type")]

---------------------------------------------------------------------------
(* Dictionaries: a dict is a function on a subset of Keys, iterated in     *)
(* the order of KeyOrder.                                                  *)

Keys == {"a", "b"}
KeyOrder == <<"a", "b">>

InOrder(dom) == SelectSeq(KeyOrder, LAMBDA k : k \in dom)

\* the first raise among rs, in order; rs[i] otherwise all returns
RECURSIVE FirstRaise(_, _)
FirstRaise(rs, i) ==
  IF i > Len(rs) THEN <<>>
  ELSE IF rs[i].kind = "raise" THEN <<rs[i]>> ELSE FirstRaise(rs, i + 1)

\* what a loop over the keys of dom returns when entry k evaluates to f[k]
DictResult(dom, f) ==
  LET order == InOrder(dom)
      raised == FirstRaise([i \in 1..Len(order) |-> f[order[i]]], 1) IN
  IF raised # <<>> THEN raised[1] ELSE Return(PyDict([k \in dom |-> f[k].value]))

\* what a list comprehension returns when element i evaluates to rs[i]
ListResult(rs) ==
  LET raised == FirstRaise(rs, 1) IN
  IF raised # <<>> THEN raised[1] ELSE Return(PyList([i \in 1..Len(rs) |-> rs[i].value]))

build_value_dict(metadata_value_dict) ==
  DictResult(DOMAIN metadata_value_dict,
             [k \in DOMAIN metadata_value_dict |->
                GetAttr(metadata_value_dict[k], WhichOneofValue(metadata_value_dict[k]))])

\* the body of the loop of build_metadata_value_dict for one value
MetadataValueEntry(v) ==
  IF IsInstanceStr(v) THEN Return(PyMetadataValue(SetStringValue(NewMetadataValue, v.s)))
  ELSE IF IsInstanceInt(v) THEN Return(PyMetadataValue(SetIntValue(NewMetadataValue, IntOf(v))))
  ELSE IF IsInstanceFloat(v) THEN Return(PyMetadataValue(SetDoubleValue(NewMetadataValue, v.f)))
  ELSE Raise("RuntimeError", "Unsupported type")

build_metadata_value_dict(value_dict) ==
  IF DOMAIN value_dict = {} THEN Return(PyDict(value_dict))
  ELSE DictResult(DOMAIN value_dict, [k \in DOMAIN value_dict |-> MetadataValueEntry(value_dict[k])])

\* parse_value that hands back the string when the value type is plain
parse_value_keep_plain(value, value_type) ==
  IF value_type.proto_metadata # <<>>
  THEN deserialize_proto_message(value, value_type.proto_metadata[1])
  ELSE IF value_type.boolean_type THEN json_loads(value)
  ELSE Return(value)

\* parse_value(value, value_type), nested in build_parsed_value_dict
parse_value(value, value_type) ==
  IF value_type.proto_metadata # <<>>
  THEN deserialize_proto_message(value, value_type.proto_metadata[1])
  ELSE IF value_type.boolean_type THEN json_loads(value)
  ELSE Return(PyNone)

\* the elements a for loop over a Python value visits
Iterate(v) ==
  CASE v.kind = "list" -> Return(v.items)
    [] v.kind = "str" -> Return([i \in 1..Len(v.s) |-> PyStr(<<v.s[i]>>)])
    [] OTHER -> Raise("TypeError", "object is not iterable")

\* ParsedEntry that decodes every string, with an empty schema for a key
\* that has none (schema_dict.get(k, Schema()) instead of the membership test)
ParsedEntry_decode_all(v, k, schema_dict) ==
  IF HasFieldStringValue(v)
  THEN LET schema == IF k \in DOMAIN schema_dict THEN schema_dict[k] ELSE NewSchema
           value == PyStr(v.string_value[1]) IN
       IF schema.container_type = "LIST"
       THEN LET list_value == json_loads(value) IN
            IF list_value.kind = "raise" THEN list_value
            ELSE LET elems == Iterate(list_value.value) IN
                 IF elems.kind = "raise" THEN elems
                 ELSE ListResult([i \in 1..Len(elems.value) |->
                                    parse_value(elems.value[i], schema.value_type)])
       ELSE parse_value(value, schema.value_type)
  ELSE GetAttr(v, WhichOneofValue(v))

\* the body of the loop of build_parsed_value_dict for key k
ParsedEntry(v, k, schema_dict) ==
  IF HasFieldStringValue(v) /\ k \in DOMAIN schema_dict
  THEN LET schema == schema_dict[k]
           value == PyStr(v.string_value[1]) IN
       IF schema.container_type = "LIST"
       THEN LET list_value == json_loads(value) IN
            IF list_value.kind = "raise" THEN list_value
            ELSE LET elems == Iterate(list_value.value) IN
                 IF elems.kind = "raise" THEN elems
                 ELSE ListResult([i \in 1..Len(elems.value) |->
                                    parse_value(elems.value[i], schema.value_type)])
       ELSE parse_value(value, schema.value_type)
  ELSE GetAttr(v, WhichOneofValue(v))

build_parsed_value_dict(value_dict, schema_dict) ==
  IF DOMAIN value_dict = {} THEN Return(PyDict(value_dict))
  ELSE DictResult(DOMAIN value_dict,
                  [k \in DOMAIN value_dict |-> ParsedEntry(value_dict[k], k, schema_dict)])

---------------------------------------------------------------------------
(* The inputs the translators are run on.                                  *)

IntValues == {PyInt(n) : n \in 0..MaxNum}
FloatValues == {PyFloat(h) : h \in 1..MaxNum}
BoolValues == {PyBool(b) : b \in BOOLEAN}

\* the lists of booleans of at most MaxLen elements
BoolLists == {PyList(l) : l \in UNION {[1..n -> BoolValues] : n \in 0..MaxLen}}
\* the same lists with every element packed into a string of its own
PackedBoolLists == {PyList([i \in 1..Len(v.items) |-> json_dumps(v.items[i])]) : v \in BoolLists}

PlainStr == PyStr(<<"x">>)
\* strings that are payloads, plain text or neither
StrValues ==
  {PlainStr, PyStr(<<>>), PyStr(<<"[">>), PyStr(TrueText), PyStr(FalseText)}
    \cup {json_dumps(v) : v \in BoolLists \cup PackedBoolLists}

MessageType == ClassType("Msg", TRUE)
PropertyTypes ==
  {NoType, BoolType, MessageType, ClassType("int", FALSE), ClassType("str", FALSE),
   GenericAlias("list", BoolType), GenericAlias("list", MessageType),
   GenericAlias("list", ClassType("int", FALSE)),
   GenericAlias("list", GenericAlias("list", BoolType)),
   GenericAlias("dict", ClassType("str", FALSE))}

\* metadata_store_pb2.Value messages: not set, or one slot set
MetadataValues(strs) ==
  {NewMetadataValue}
    \cup {SetIntValue(NewMetadataValue, v.i) : v \in IntValues}
    \cup {SetDoubleValue(NewMetadataValue, v.f) : v \in FloatValues}
    \cup {SetStringValue(NewMetadataValue, v.s) : v \in strs}

ValueTypes ==
  [proto_metadata : {<<>>, <<[message_type |-> "Msg", file_descriptors |-> "Msg"]>>},
   boolean_type : BOOLEAN]
Schemas == [container_type : {"NONE", "LIST"}, value_type : ValueTypes]

\* pipeline_pb2.Value messages: nothing set, a runtime parameter, or a field_value
ParameterValues ==
  {p \in [field_value : {<<>>} \cup {<<m>> : m \in MetadataValues({PlainStr})},
          runtime_parameter : {<<>>, <<"runtime-param">>},
          schema : {NewSchema, [NewSchema EXCEPT !.value_type.boolean_type = TRUE]}] :
     p.field_value = <<>> \/ p.runtime_parameter = <<>>}

\* every kind of Python value a caller may pass, with the strings of strs
PyValues(strs) ==
  IntValues \cup FloatValues \cup BoolValues \cup strs
    \cup {PyNone, PyList(<<PyInt(1)>>)}
    \cup {PyPipelineValue(p) : p \in ParameterValues}

\* the dicts from a subset of Keys to the elements of vals
Dicts(vals) == UNION {[dom -> vals] : dom \in SUBSET Keys}

---------------------------------------------------------------------------
(* The metadata value of a caller: set_metadata_value and                  *)
(* get_metadata_value on one target.                                       *)

Init ==
  /\ metadata_value = NewMetadataValue
  /\ parameter_value = NewParameterValue
  /\ call = [op |-> "init"]
  /\ ret = Return(PyNone)

Do_set_metadata_value ==
  \E value \in PyValues(StrValues) :
    LET r == set_metadata_value(metadata_value, value) IN
    /\ metadata_value' = r.out
    /\ call' = [op |-> "set_metadata_value", value |-> value]
    /\ ret' = r.ret
    /\ UNCHANGED parameter_value

Do_get_metadata_value ==
  /\ call' = [op |-> "get_metadata_value"]
  /\ ret' = get_metadata_value(metadata_value)
  /\ UNCHANGED <<metadata_value, parameter_value>>

NextMeta == Do_set_metadata_value \/ Do_get_metadata_value

SpecMeta == Init /\ [][NextMeta]_vars

---------------------------------------------------------------------------
(* The parameter value of a caller: set_parameter_value, on the caller's   *)
(* message or on one it has just constructed.                              *)

ParamStrs == {PlainStr, json_dumps(PyList(<<PyBool(TRUE)>>))}
\* the raw values set_parameter_value is given
RawValues ==
  IntValues \cup FloatValues \cup BoolValues \cup ParamStrs \cup {PyNone, PyList(<<PyBool(TRUE)>>)}

Do_set_parameter_value ==
  \E value \in RawValues, property_type \in PropertyTypes, fresh \in BOOLEAN :
    LET target == IF fresh THEN NewParameterValue ELSE parameter_value
        r == set_parameter_value(target, value, property_type) IN
    /\ parameter_value' = r.out
    /\ call' = [op |-> "set_parameter_value", value |-> value,
                property_type |-> property_type, fresh |-> fresh]
    /\ ret' = r.ret
    /\ UNCHANGED metadata_value

NextParam == Do_set_parameter_value

SpecParam == Init /\ [][NextParam]_vars

---------------------------------------------------------------------------
(* The translators that read their arguments only: get_value,              *)
(* get_metadata_value_type, build_value_dict, build_metadata_value_dict.   *)

Do_get_value ==
  \E tfx_value \in ParameterValues :
    /\ call' = [op |-> "get_value", tfx_value |-> tfx_value]
    /\ ret' = get_value(tfx_value)
    /\ UNCHANGED <<metadata_value, parameter_value>>

Do_get_metadata_value_type ==
  \E value \in PyValues({PlainStr}) :
    /\ call' = [op |-> "get_metadata_value_type", value |-> value]
    /\ ret' = get_metadata_value_type(value)
    /\ UNCHANGED <<metadata_value, parameter_value>>

Do_build_value_dict ==
  \E metadata_value_dict \in Dicts(MetadataValues({PlainStr})) :
    /\ call' = [op |-> "build_value_dict", metadata_value_dict |-> metadata_value_dict]
    /\ ret' = build_value_dict(metadata_value_dict)
    /\ UNCHANGED <<metadata_value, parameter_value>>

Do_build_metadata_value_dict ==
  \E value_dict \in Dicts(IntValues \cup FloatValues \cup BoolValues \cup {PlainStr, PyNone}) :
    /\ call' = [op |-> "build_metadata_value_dict", value_dict |-> value_dict]
    /\ ret' = build_metadata_value_dict(value_dict)
    /\ UNCHANGED <<metadata_value, parameter_value>>

NextPure ==
  \/ Do_get_value
  \/ Do_get_metadata_value_type
  \/ Do_build_value_dict
  \/ Do_build_metadata_value_dict

SpecPure == Init /\ [][NextPure]_vars

---------------------------------------------------------------------------
(* build_parsed_value_dict on stored values and schemas.                   *)

\* the caller holds a values mapping and a schemas mapping
InitParsed ==
  /\ metadata_value = NewMetadataValue
  /\ parameter_value = NewParameterValue
  /\ \E value_dict \in Dicts(MetadataValues(StrValues)), schema_dict \in Dicts(Schemas) :
       call = [op |-> "input", value_dict |-> value_dict, schema_dict |-> schema_dict]
  /\ ret = Return(PyNone)

Do_build_parsed_value_dict ==
  /\ call.op = "input"
  /\ call' = [call EXCEPT !.op = "build_parsed_value_dict"]
  /\ ret' = build_parsed_value_dict(call.value_dict, call.schema_dict)
  /\ UNCHANGED <<metadata_value, parameter_value>>

NextParsed == Do_build_parsed_value_dict

SpecParsed == InitParsed /\ [][NextParsed]_vars

---------------------------------------------------------------------------
(* A value on its way through the store: the caller packs it with the List *)
(* Codec, set_parameter_value stamps the schema, set_metadata_value stores *)
(* the field value, build_parsed_value_dict decodes it with the schema.    *)

RoundTripValues == BoolLists \cup PackedBoolLists \cup BoolValues
RoundTripTypes ==
  {NoType, BoolType, GenericAlias("list", BoolType), GenericAlias("list", MessageType)}

Do_encode ==
  \E v \in RoundTripValues, property_type \in RoundTripTypes :
    LET r == set_parameter_value(NewParameterValue, json_dumps(v), property_type) IN
    /\ parameter_value' = r.out
    /\ metadata_value' = NewMetadataValue
    /\ call' = [op |-> "encode", v |-> v, property_type |-> property_type]
    /\ ret' = r.ret

Do_store ==
  /\ call.op = "encode"
  /\ ret.kind = "return"
  /\ LET r == set_metadata_value(NewMetadataValue, PyPipelineValue(parameter_value)) IN
     /\ metadata_value' = r.out
     /\ ret' = r.ret
  /\ call' = [call EXCEPT !.op = "store"]
  /\ UNCHANGED parameter_value

Do_decode ==
  /\ call.op = "store"
  /\ ret.kind = "return"
  /\ ret' = build_parsed_value_dict([k \in {"a"} |-> metadata_value],
                                    [k \in {"a"} |-> parameter_value.schema])
  /\ call' = [call EXCEPT !.op = "decode"]
  /\ UNCHANGED <<metadata_value, parameter_value>>

NextRoundTrip == Do_encode \/ Do_store \/ Do_decode

SpecRoundTrip == Init /\ [][NextRoundTrip]_vars

---------------------------------------------------------------------------
(* Properties of set_metadata_value and get_metadata_value.                *)

\* the slot of the oneof that carries a Python value of this kind
SlotOfKind(kind) ==
  CASE kind = "int" -> "int_value"
    [] kind = "float" -> "double_value"
    [] kind = "str" -> "string_value"

IsPrimitive(value) == value.kind \in {"int", "float", "str"}

\* C1: after set_metadata_value(target, v) with v a non-boolean int, a float
\* or a str, whatever the target held, the call returns the target, reading
\* the target with get_metadata_value returns exactly v, and exactly one slot
\* of the target is populated, the one of v's kind.
C1_RoundTrip ==
  (call.op = "set_metadata_value" /\ IsPrimitive(call.value)) =>
    /\ ret = Return(PyMetadataValue(metadata_value))
    /\ get_metadata_value(metadata_value) = Return(call.value)
    /\ PopulatedSlots(metadata_value) = 1
    /\ WhichOneofValue(metadata_value) = SlotOfKind(call.value.kind)

\* a str has been set into the target and read back from the string slot
C1_Witness ==
  /\ call.op = "set_metadata_value"
  /\ call.value = PlainStr
  /\ metadata_value.string_value = <<PlainStr.s>>
  /\ ret.kind = "return"

\* C2: set_metadata_value with a native boolean raises the unsupported-type
\* error and leaves the target exactly as it was; in particular it does not
\* write the integer slot.
C2_BooleanExclusion ==
  [][(call'.op = "set_metadata_value" /\ call'.value.kind = "bool") =>
       /\ ret' = Raise("ValueError", "Unexpected type")
       /\ metadata_value' = metadata_value]_vars

\* a boolean has been refused while the target held a string
C2_Witness ==
  /\ call.op = "set_metadata_value"
  /\ call.value = PyBool(TRUE)
  /\ ret.kind = "raise"
  /\ WhichOneofValue(metadata_value) = "string_value"

---------------------------------------------------------------------------
(* Properties of set_parameter_value.                                      *)

\* how parse_value reads a value type
ValueTypeKind(vt) ==
  IF vt.proto_metadata # <<>> THEN "STRUCTURED_MESSAGE"
  ELSE IF vt.boolean_type THEN "BOOLEAN"
  ELSE "PLAIN"

\* a schema that says anything: a list container or a non-plain value type
NonEmptySchema(s) == s.container_type = "LIST" \/ ValueTypeKind(s.value_type) # "PLAIN"

\* the value type the scalar rule gives for a declared class
ScalarValueType(t) ==
  IF t.message
  THEN [proto_metadata |-> <<[message_type |-> t.name, file_descriptors |-> t.name]>>,
        boolean_type |-> FALSE]
  ELSE IF t.name = "bool" THEN [proto_metadata |-> <<>>, boolean_type |-> TRUE]
  ELSE [proto_metadata |-> <<>>, boolean_type |-> FALSE]

IsListAlias(t) == t.meta = "_GenericAlias" /\ t.origin = "list"

\* C8: set_parameter_value on a fresh pipeline_pb2.Value with a str: no
\* declared type gives no schema; bool gives BOOLEAN with container NONE; a
\* message class gives STRUCTURED_MESSAGE with container NONE; List[T] gives
\* container LIST with the value type the scalar rule gives for T (none when T
\* is neither bool nor a message class); any other declared type raises the
\* unsupported-type error; and a raw value that is no int, float or str (a
\* bool, a list) raises the unsupported-type error and writes nothing.
C8_SchemaEncoder ==
  (call.op = "set_parameter_value" /\ call.fresh) =>
    LET t == call.property_type
        s == parameter_value.schema
        returned == ret = Return(PyPipelineValue(parameter_value)) IN
    /\ call.value.kind = "str" =>
         /\ FieldValueOf(parameter_value) = SetStringValue(NewMetadataValue, call.value.s)
         /\ t = NoType => returned /\ s = NewSchema
         /\ t = BoolType =>
              /\ returned
              /\ s.container_type = "NONE"
              /\ ValueTypeKind(s.value_type) = "BOOLEAN"
         /\ IsSubclassOfMessage(t) =>
              /\ returned
              /\ s.container_type = "NONE"
              /\ ValueTypeKind(s.value_type) = "STRUCTURED_MESSAGE"
              /\ s.value_type.proto_metadata[1].message_type = t.name
         /\ (IsListAlias(t) /\ t.arg.meta = "type") =>
              /\ returned
              /\ s.container_type = "LIST"
              /\ s.value_type = ScalarValueType(t.arg)
         /\ (t # NoType /\ t # BoolType /\ ~IsSubclassOfMessage(t) /\ ~IsListAlias(t)) =>
              /\ ret = Raise("ValueError", "Serialized string has unexpected type")
              /\ s = NewSchema
    /\ ~IsPrimitive(call.value) =>
         /\ ret = Raise("ValueError", "Unexpected type")
         /\ parameter_value = NewParameterValue

\* a fresh value was given a list payload declared List[bool]
C8_Witness ==
  /\ call.op = "set_parameter_value"
  /\ call.fresh
  /\ call.value.kind = "str"
  /\ call.property_type = GenericAlias("list", BoolType)
  /\ parameter_value.schema.container_type = "LIST"
  /\ parameter_value.schema.value_type.boolean_type
  /\ ret.kind = "return"

\* C9: after any sequence of set_parameter_value calls on one target, the
\* target carries a non-empty schema only if its populated slot is the string
\* slot, the schema after a successful call with a str is the one derived from
\* that call's declared type, and after a successful call with an int or a
\* float the target has no schema.
C9_SchemaOnlyOnString ==
  /\ NonEmptySchema(parameter_value.schema) =>
       WhichOneofValue(FieldValueOf(parameter_value)) = "string_value"
  /\ (call.op = "set_parameter_value" /\ ret.kind = "return") =>
       /\ call.value.kind = "str" =>
            parameter_value.schema =
              set_parameter_value(NewParameterValue, call.value, call.property_type).out.schema
       /\ call.value.kind \in {"int", "float"} => ~NonEmptySchema(parameter_value.schema)

---------------------------------------------------------------------------
(* Properties of the reading translators.                                  *)

\* the Python value of the populated slot of m
BarePrimitive(m) ==
  IF m.int_value # <<>> THEN PyInt(m.int_value[1])
  ELSE IF m.double_value # <<>> THEN PyFloat(m.double_value[1])
  ELSE PyStr(m.string_value[1])

\* C3: get_value returns exactly the populated int, double or string of a
\* resolved field_value, and raises the unresolved-value error, returning
\* nothing, when the value holds a runtime parameter or nothing at all.
C3_UnresolvedGuard ==
  call.op = "get_value" =>
    LET p == call.tfx_value IN
    /\ (p.field_value # <<>> /\ PopulatedSlots(p.field_value[1]) = 1) =>
         ret = Return(BarePrimitive(p.field_value[1]))
    /\ p.field_value = <<>> => ret = Raise("RuntimeError", "Expecting field_value")

\* get_value was given a runtime parameter and raised
C3_Witness ==
  /\ call.op = "get_value"
  /\ call.tfx_value.runtime_parameter # <<>>
  /\ ret.kind = "raise"

\* C5: build_value_dict and build_metadata_value_dict apply get_metadata_value
\* and set_metadata_value entry by entry: same keys, an unset value gives None,
\* a boolean is refused as set_metadata_value refuses it, and an empty mapping
\* gives an empty mapping.
C5_ElementWise ==
  /\ call.op = "build_value_dict" =>
       LET d == call.metadata_value_dict IN
       ret = Return(PyDict([k \in DOMAIN d |-> get_metadata_value(d[k]).value]))
  /\ call.op = "build_metadata_value_dict" =>
       LET d == call.value_dict
           e == [k \in DOMAIN d |-> set_metadata_value(NewMetadataValue, d[k]).ret] IN
       IF \E k \in DOMAIN d : e[k].kind = "raise"
       THEN ret.kind = "raise"
       ELSE ret = Return(PyDict([k \in DOMAIN d |-> e[k].value]))

\* C7: get_metadata_value_type never classifies a bool as INT; an int is INT,
\* a float DOUBLE, a str STRING; a pipeline value holding a runtime parameter
\* raises the unresolved-value error, a resolved one classifies as its
\* populated slot and raises the unsupported-value error when no slot is
\* populated; any other type raises the unsupported-value error.
C7_Classifier ==
  call.op = "get_metadata_value_type" =>
    LET v == call.value IN
    /\ v.kind = "bool" => ret # Return(PropertyType("INT"))
    /\ v.kind = "int" => ret = Return(PropertyType("INT"))
    /\ v.kind = "float" => ret = Return(PropertyType("DOUBLE"))
    /\ v.kind = "str" => ret = Return(PropertyType("STRING"))
    /\ v.kind = "pipeline_pb2.Value" =>
         /\ v.m.field_value = <<>> => ret = Raise("RuntimeError", "Expecting field_value")
         /\ v.m.field_value # <<>> =>
              LET which == WhichOneofValue(v.m.field_value[1]) IN
              /\ which = "int_value" => ret = Return(PropertyType("INT"))
              /\ which = "double_value" => ret = Return(PropertyType("DOUBLE"))
              /\ which = "string_value" => ret = Return(PropertyType("STRING"))
              /\ which = "None" => ret = Raise("ValueError", "Unexpected value type")
    /\ v.kind \in {"NoneType", "list"} => ret = Raise("ValueError", "Unexpected value type")

---------------------------------------------------------------------------
(* Properties of build_parsed_value_dict.                                  *)

\* the list payloads the List Codec writes
ListPayloads == BoolLists \cup PackedBoolLists

\* C4: a list v of booleans, packed with the List Codec, stamped List[bool] by
\* set_parameter_value, stored with set_metadata_value and decoded by
\* build_parsed_value_dict with the stamped schema, comes back equal to v.
C4_ListOfBoolRoundTrip ==
  (call.op = "decode" /\ call.v \in BoolLists
     /\ call.property_type = GenericAlias("list", BoolType)) =>
    ret = Return(PyDict([k \in {"a"} |-> call.v]))

\* C6: the output of build_parsed_value_dict has the keys of the values
\* mapping; an entry that is not a string, or whose key has no schema, is the
\* stored primitive unchanged; and a call where no entry is decoded (and
\* every entry is set) returns.
C6_PassThrough ==
  call.op = "build_parsed_value_dict" =>
    LET vd == call.value_dict
        sd == call.schema_dict
        Decoded(k) == vd[k].string_value # <<>> /\ k \in DOMAIN sd IN
    /\ ret.kind = "return" =>
         /\ DOMAIN ret.value.d = DOMAIN vd
         /\ \A k \in DOMAIN vd : ~Decoded(k) => ret.value.d[k] = BarePrimitive(vd[k])
    /\ (\A k \in DOMAIN vd : ~Decoded(k) /\ PopulatedSlots(vd[k]) = 1) => ret.kind = "return"

\* a string whose key has no schema passed through beside a schema for a key
\* that holds no value
C6_Witness ==
  /\ call.op = "build_parsed_value_dict"
  /\ DOMAIN call.value_dict = {"a"}
  /\ call.value_dict["a"].string_value = <<TrueText>>
  /\ DOMAIN call.schema_dict = {"b"}
  /\ ret = Return(PyDict([k \in {"a"} |-> PyStr(TrueText)]))

\* C10: a string decoded under a schema whose value type is neither
\* STRUCTURED_MESSAGE nor BOOLEAN comes out as None: with container NONE the
\* entry is None, with container LIST and a list payload the entry is a list
\* of None as long as the payload's list, and such a call raises nothing.
C10_PlainDecode ==
  call.op = "build_parsed_value_dict" =>
    LET vd == call.value_dict
        sd == call.schema_dict
        Plain(k) == /\ vd[k].string_value # <<>>
                    /\ k \in DOMAIN sd
                    /\ ValueTypeKind(sd[k].value_type) = "PLAIN"
        Lists(k) == {l \in ListPayloads : JsonText(l) = vd[k].string_value[1]}
        PlainOk(k) == Plain(k) /\ (sd[k].container_type = "LIST" => Lists(k) # {}) IN
    /\ ret.kind = "return" =>
         \A k \in DOMAIN vd :
           Plain(k) =>
             IF sd[k].container_type = "NONE"
             THEN ret.value.d[k] = PyNone
             ELSE \A l \in Lists(k) :
                    ret.value.d[k] = PyList([i \in 1..Len(l.items) |-> PyNone])
    /\ (DOMAIN vd # {} /\ \A k \in DOMAIN vd : PlainOk(k)) => ret.kind = "return"

\* a list payload of two elements was decoded under a plain LIST schema
C10_Witness ==
  /\ call.op = "build_parsed_value_dict"
  /\ DOMAIN call.value_dict = {"a"}
  /\ "a" \in DOMAIN call.schema_dict
  /\ call.schema_dict["a"] = [NewSchema EXCEPT !.container_type = "LIST"]
  /\ call.value_dict["a"].string_value = <<JsonText(PyList(<<PyBool(TRUE), PyBool(FALSE)>>))>>
  /\ ret = Return(PyDict([k \in {"a"} |-> PyList(<<PyNone, PyNone>>)]))

====
